---- MODULE Spec2Model ----
(***************************************************************************)
(* Odoo linter for VS Code: the debounced lint trigger, the asynchronous   *)
(* lint pass (updateDiagnostics) of the TypeScript and the JavaScript      *)
(* extension, the module-root walk (findOdooModuleRoot), the tree-sitter   *)
(* based lintDocument and the XML data-file linter.                        *)
(***************************************************************************)
EXTENDS Integers, Sequences, FiniteSets, TLC

(* ------------------------------------------------------------------ *)
(* Program constants and model bounds                                  *)
(* ------------------------------------------------------------------ *)

\* setTimeout(..., 500): the debounce delay in ms
DebounceMs == 500

\* for (let i = 0; i < 10; i++): levels examined by findOdooModuleRoot
MaxLevels == 10

\* granularity of the clock, ms per Tick
TickMs == 250

\* number of triggerLinting calls in a run
MaxTriggers == 3

\* deepest file directory of the module-root walk (0 is the filesystem root)
MaxDepth == 12

Min(a, b) == IF a < b THEN a ELSE b

\* the documents of a run: one Python, one XML, one of another language
Docs == {"a.py", "v.xml", "n.txt"}

\* the two extensions of the repository
Impls == {"ts", "js"}

LanguageId(d) ==
    CASE d = "a.py" -> "python"
      [] d = "v.xml" -> "xml"
      [] OTHER -> "plaintext"

IsLintable(d) == LanguageId(d) = "python" \/ LanguageId(d) = "xml"

LintableDocs == {d \in Docs : IsLintable(d)}

\* path.basename(document.uri.fsPath)
FileName(d) == d

\* events that call triggerLinting; the JavaScript extension does not
\* subscribe to onDidChangeActiveTextEditor
TriggerKinds(im) ==
    IF im = "ts" THEN {"open", "save", "change", "active"}
    ELSE {"open", "save", "change"}

(* ------------------------------------------------------------------ *)
(* The filesystem a pass reads (static during a run)                    *)
(* ------------------------------------------------------------------ *)

\* depth    : depth of the directory of the file (0 = filesystem root)
\* manifests: the depths of the ancestors on which stat(__manifest__.py) succeeds
\* initPy   : __init__.py of the file's directory
\* accessCsv: security/ir.model.access.csv of the module
\* manifest : readFile(__manifest__.py) and whether the file is declared
\* model    : whether the text has models.Model and a _name assignment
InModule ==
    [depth |-> 1, manifests |-> {1}, initPy |-> "lacks", accessCsv |-> "norow",
     manifest |-> "undeclared", model |-> "named"]

NoModule ==
    [depth |-> 1, manifests |-> {}, initPy |-> "absent", accessCsv |-> "absent",
     manifest |-> "unreadable", model |-> "none"]

Declared ==
    [depth |-> 1, manifests |-> {1}, initPy |-> "imports", accessCsv |-> "row",
     manifest |-> "declared", model |-> "named"]

FsLayouts ==
    { [d \in Docs |-> IF d = "a.py" THEN InModule ELSE NoModule],
      [d \in Docs |-> IF d = "v.xml" THEN Declared ELSE InModule] }

VARIABLES
    impl,            \* which extension runs: "ts" or "js"
    fs,              \* the filesystem layout of each document
    docText,         \* version of the text of each Python or XML document
                     \* (the live TextDocument; other texts are never read)
    timers,          \* the runtime's pending setTimeout callbacks
    lintingTimeout,  \* the handle kept by activate(); 0 is undefined
    nextId,          \* number of timers created so far
    passes,          \* executions of updateDiagnostics that await a read
    background,      \* rule reads started and not awaited (JavaScript extension)
    store,           \* the DiagnosticCollection: findings per document
    storedBy,        \* history: id of the pass that last wrote the entry
    lastStarted,     \* history: id of the pass that started last per document
    sinceTrigger,    \* history: ms since the last triggerLinting that armed a timer
    sinceStart,      \* history: ms since the last lint pass started
    burst,           \* history: the triggers coalesced into the pending timer
    owed,            \* history: an open/save of the document awaits its stored pass
                     \* (a pass is fresh while no open/save of its document
                     \* happened after it started)
    lastDone,        \* history: the pass that stored last
    walk,            \* findOdooModuleRoot on its own (module-root walk)
    lint,            \* OdooLinter.lintDocument on its own
    data,            \* lintDataFile (fast-xml-parser variant) on its own
    ruleRun          \* one rule function applied on its own to an input

vars == <<impl, fs, docText, timers, lintingTimeout, nextId, passes, background,
          store, storedBy, lastStarted, sinceTrigger, sinceStart, burst, owed,
          lastDone, walk, lint, data, ruleRun>>

extVars == <<impl, fs, docText, timers, lintingTimeout, nextId, passes, background,
             store, storedBy, lastStarted, sinceTrigger, sinceStart, burst, owed,
             lastDone>>

NoBurst == [doc |-> "", n |-> 0, text |-> 0, started |-> 0]
NoDone == [id |-> 0, doc |-> "", problems |-> <<>>, root |-> -1, prevBy |-> 0,
           prevLen |-> 0]
Idle == [pc |-> "idle"]

(* ------------------------------------------------------------------ *)
(* findOdooModuleRoot                                                   *)
(* ------------------------------------------------------------------ *)

\* vscode.Uri.joinPath(currentDir, '..'): the root is its own parent
ParentDir(dir) == IF dir = 0 THEN 0 ELSE dir - 1

\* let currentDir = joinPath(fileUri, '..'); i = 0; first stat is awaited
WalkStart(depth) == [i |-> 0, dir |-> depth, status |-> "stat", root |-> -1]

\* the walk without the limit of levels
FindOdooModuleRootStepUnbounded(w, manifests) ==
    IF w.dir \in manifests
    THEN [w EXCEPT !.status = "found", !.root = w.dir]
    ELSE IF ParentDir(w.dir) = w.dir
         THEN [w EXCEPT !.status = "null"]
         ELSE [w EXCEPT !.i = w.i + 1, !.dir = ParentDir(w.dir)]

\* a walk that starts at the parent of the directory of the file
FindOdooModuleRootStepFromParent(w, manifests) ==
    IF w.dir \in manifests /\ w.i > 0
    THEN [w EXCEPT !.status = "found", !.root = w.dir]
    ELSE IF ParentDir(w.dir) = w.dir
         THEN [w EXCEPT !.status = "null"]
         ELSE IF w.i + 1 < MaxLevels
              THEN [w EXCEPT !.i = w.i + 1, !.dir = ParentDir(w.dir)]
              ELSE [w EXCEPT !.i = w.i + 1, !.dir = ParentDir(w.dir),
                             !.status = "null"]

\* one iteration of the loop, run when the awaited stat settles:
\* stat succeeded -> return currentDir; otherwise (catch) go to the parent,
\* return null at the filesystem root, and leave the loop with null when i
\* reaches the limit
FindOdooModuleRootStep(w, manifests) ==
    IF w.dir \in manifests
    THEN [w EXCEPT !.status = "found", !.root = w.dir]
    ELSE IF ParentDir(w.dir) = w.dir
         THEN [w EXCEPT !.status = "null"]
         ELSE IF w.i + 1 < MaxLevels
              THEN [w EXCEPT !.i = w.i + 1, !.dir = ParentDir(w.dir)]
              ELSE [w EXCEPT !.i = w.i + 1, !.dir = ParentDir(w.dir),
                             !.status = "null"]

(* ------------------------------------------------------------------ *)
(* The rules of a pass, as far as its reads and its result go          *)
(* ------------------------------------------------------------------ *)

Finding(rule, by, ver) == [rule |-> rule, by |-> by, ver |-> ver]

\* a text captured when the document was opened instead of the live text
GetTextAtOpen(d) == 0

\* document.getText(): the live document, read when the rule runs
GetText(d) == docText[d]

\* const problems = [] of updateDiagnostics
NewProblems(d) == <<>>

\* the collection cleared before the entry is set
DiagnosticsSetAfterClear(d, problems) ==
    [e \in Docs |-> IF e = d THEN problems ELSE <<>>]

\* the new findings appended to the entry instead of replacing it
DiagnosticsSetMerging(d, problems) == [store EXCEPT ![d] = @ \o problems]

\* diagnostics.set(uri, problems): the entry is replaced by a copy
DiagnosticsSet(d, problems) == [store EXCEPT ![d] = problems]

\* the pending timer left running
ClearTimeoutMissing(ts, handle) == ts

\* clearTimeout(lintingTimeout)
ClearTimeout(ts, handle) == {t \in ts : t.id # handle}

\* the findings of the rules that scan the text (regex and tree rules)
TextRules(p, ver) == <<Finding("text", p.id, ver)>>

\* a rule that also reports a directory without a readable __init__.py
InitImportRuleReportsAbsent(p) ==
    IF fs[p.doc].initPy \in {"lacks", "absent"}
    THEN <<Finding("init", p.id, -1)>> ELSE <<>>

\* the warning of the __init__.py rule once readFile settled (catch: the
\* file is absent or unreadable, nothing is pushed)
InitImportRule(p) ==
    IF fs[p.doc].initPy = "lacks" THEN <<Finding("init", p.id, -1)>> ELSE <<>>

\* the warning of the access rule once readFile settled (catch: file absent)
ModelAccessRule(p) ==
    CASE fs[p.doc].accessCsv = "norow" -> <<Finding("access", p.id, -1)>>
      [] fs[p.doc].accessCsv = "absent" -> <<Finding("nocsv", p.id, -1)>>
      [] OTHER -> <<>>

\* the warning of the manifest rule once readFile settled (catch: nothing)
ManifestDataRule(p) ==
    IF fs[p.doc].manifest = "undeclared"
    THEN <<Finding("manifest", p.id, -1)>> ELSE <<>>


(* ------------------------------------------------------------------ *)
(* activate(): triggerLinting and the debounce timer                   *)
(* ------------------------------------------------------------------ *)

TextOf(d) == IF IsLintable(d) THEN docText[d] ELSE 0

NewTimer(id, d) == [id |-> id, doc |-> d, remaining |-> DebounceMs]

DueTimers == {t \in timers : t.remaining = 0}

\* An event handler calls triggerLinting(document).  A content change
\* first changes the text of the live document.  The JavaScript extension
\* returns before clearTimeout for a document that is neither Python nor
\* XML.  A timer that is due runs before any later event.
TriggerLinting(d, kind) ==
    /\ kind \in TriggerKinds(impl)
    /\ DueTimers = {}
    /\ nextId < MaxTriggers
    /\ docText' = IF kind = "change" /\ IsLintable(d)
                  THEN [docText EXCEPT ![d] = @ + 1]
                  ELSE docText
    /\ IF impl = "js" /\ ~IsLintable(d)
       THEN UNCHANGED <<timers, lintingTimeout, nextId, sinceTrigger, burst, owed,
                        passes>>
       ELSE /\ nextId' = nextId + 1
            /\ timers' = ClearTimeout(timers, lintingTimeout)
                            \cup {NewTimer(nextId + 1, d)}
            /\ lintingTimeout' = nextId + 1
            /\ sinceTrigger' = 0
            /\ burst' = IF burst.doc = d /\ burst.started = 0
                           /\ sinceTrigger < DebounceMs
                        THEN [burst EXCEPT !.n = @ + 1, !.text = TextOf(d)']
                        ELSE [doc |-> d, n |-> 1, text |-> TextOf(d)',
                              started |-> 0]
            /\ IF kind \in {"open", "save"} /\ IsLintable(d)
               THEN /\ owed' = [owed EXCEPT ![d] = TRUE]
                    /\ passes' = {IF p.doc = d THEN [p EXCEPT !.fresh = FALSE]
                                  ELSE p : p \in passes}
               ELSE UNCHANGED <<owed, passes>>
    /\ UNCHANGED <<impl, fs, background, store, storedBy, lastStarted,
                   sinceStart, lastDone, walk, lint, data, ruleRun>>

\* time passes: never beyond the deadline of a pending timer
Tick ==
    /\ DueTimers = {}
    /\ timers # {} \/ passes # {}
    /\ LET delta == IF timers = {} THEN TickMs
                    ELSE Min(TickMs, CHOOSE r \in {t.remaining : t \in timers} :
                                 \A t \in timers : r <= t.remaining)
       IN /\ timers' = {[t EXCEPT !.remaining = @ - delta] : t \in timers}
          /\ sinceStart' = IF passes = {} THEN sinceStart
                           ELSE Min(sinceStart + delta, DebounceMs)
          /\ sinceTrigger' = IF timers = {} THEN sinceTrigger
                             ELSE Min(sinceTrigger + delta, DebounceMs + TickMs)
    /\ UNCHANGED <<impl, fs, docText, lintingTimeout, nextId, passes, background, store,
                   storedBy, lastStarted, burst, owed, lastDone, walk, lint, data, ruleRun>>

(* ------------------------------------------------------------------ *)
(* updateDiagnostics: one lint pass                                     *)
(* ------------------------------------------------------------------ *)

NewPass(id, d) ==
    [id |-> id, doc |-> d, pc |-> "stat", w |-> WalkStart(fs[d].depth),
     text |-> -1, problems |-> <<>>, fresh |-> TRUE, burstText |-> burst.text]

\* diagnostics.set(document.uri, problems) and return
Finish(p, problems) ==
    /\ store' = DiagnosticsSet(p.doc, problems)
    /\ storedBy' = [storedBy EXCEPT ![p.doc] = p.id]
    /\ passes' = passes \ {p}
    /\ lastDone' = [id |-> p.id, doc |-> p.doc, problems |-> problems,
                    root |-> p.w.root, prevBy |-> storedBy[p.doc],
                    prevLen |-> Len(store[p.doc])]
    /\ owed' = IF p.fresh THEN [owed EXCEPT ![p.doc] = FALSE] ELSE owed

Await(p, q) ==
    /\ passes' = (passes \ {p}) \cup {q}
    /\ UNCHANGED <<store, storedBy, lastDone, owed>>

\* the timer callback runs updateDiagnostics up to its first await.  The
\* TypeScript extension returns at once for other languages (the JavaScript
\* extension never arms a timer for them).
TimerFires(t) ==
    /\ t \in timers
    /\ t.remaining = 0
    /\ timers' = timers \ {t}
    /\ burst' = [burst EXCEPT !.started = @ + 1]
    /\ IF ~IsLintable(t.doc)
       THEN UNCHANGED <<passes, lastStarted, sinceStart>>
       ELSE /\ passes' = passes \cup {NewPass(t.id, t.doc)}
            /\ lastStarted' = [lastStarted EXCEPT ![t.doc] = t.id]
            /\ sinceStart' = 0
    /\ UNCHANGED <<impl, fs, docText, lintingTimeout, nextId, background, store,
                   storedBy, sinceTrigger, owed, lastDone, walk, lint, data, ruleRun>>

\* lintPythonFile after the __init__.py rule (TypeScript): the text is read
\* here; lintModelAccess runs its text rules and awaits the access file
PythonAfterInit(p, q) ==
    LET txt == GetText(p.doc)
        r == [q EXCEPT !.text = txt]
    IN CASE fs[p.doc].model = "none" -> Finish(p, r.problems)
         [] fs[p.doc].model = "unnamed" ->
                Finish(p, r.problems \o TextRules(p, txt))
         [] OTHER ->
                Await(p, [r EXCEPT !.problems = @ \o TextRules(p, txt),
                                   !.pc = "readCsv"])

\* the continuation of updateDiagnostics once the module root is known
AfterRoot(p, q) ==
    LET d == p.doc
        r == [q EXCEPT !.problems = NewProblems(d)]
    IN IF LanguageId(d) = "python"
       THEN IF impl = "ts"
            THEN /\ IF FileName(d) # "__init__.py"
                    THEN Await(p, [r EXCEPT !.pc = "readInit"])
                    ELSE PythonAfterInit(p, r)
                 /\ UNCHANGED background
            ELSE \* lintMissingInitImport and lintMissingModelAccess are
                 \* called without await; lintFieldsWithoutString is synchronous
                 /\ background' = background
                       \cup (IF FileName(d) # "__init__.py"
                             THEN {[pass |-> p.id, doc |-> d, op |-> "init"]}
                             ELSE {})
                       \cup (IF fs[d].model = "named"
                             THEN {[pass |-> p.id, doc |-> d, op |-> "csv"]}
                             ELSE {})
                 /\ Finish(p, r.problems \o TextRules(p, GetText(d)))
       ELSE /\ UNCHANGED background
            /\ IF impl = "ts"
               THEN LET txt == GetText(d)
                    IN Await(p, [r EXCEPT !.text = txt,
                                          !.problems = @ \o TextRules(p, txt),
                                          !.pc = "readManifest"])
               ELSE Await(p, [r EXCEPT !.pc = "readManifest"])

\* an awaited stat of findOdooModuleRoot settles
StatSettles(p) ==
    /\ p \in passes
    /\ p.pc = "stat"
    /\ LET w2 == FindOdooModuleRootStep(p.w, fs[p.doc].manifests)
           q == [p EXCEPT !.w = w2]
       IN CASE w2.status = "stat" -> Await(p, q) /\ UNCHANGED background
            [] w2.status = "null" -> Finish(p, <<>>) /\ UNCHANGED background
            [] OTHER -> AfterRoot(p, q)
    /\ UNCHANGED <<impl, fs, docText, timers, lintingTimeout, nextId,
                   lastStarted, sinceTrigger, sinceStart, burst, walk, lint, data, ruleRun>>

\* readFile(__init__.py) of lintPythonFile settles (TypeScript)
InitReadSettles(p) ==
    /\ p \in passes
    /\ p.pc = "readInit"
    /\ PythonAfterInit(p, [p EXCEPT !.problems = @ \o InitImportRule(p)])
    /\ UNCHANGED <<impl, fs, docText, timers, lintingTimeout, nextId, background,
                   lastStarted, sinceTrigger, sinceStart, burst, walk, lint, data, ruleRun>>

\* readFile(ir.model.access.csv) of lintModelAccess settles (TypeScript)
AccessReadSettles(p) ==
    /\ p \in passes
    /\ p.pc = "readCsv"
    /\ Finish(p, p.problems \o ModelAccessRule(p))
    /\ UNCHANGED <<impl, fs, docText, timers, lintingTimeout, nextId, background,
                   lastStarted, sinceTrigger, sinceStart, burst, walk, lint, data, ruleRun>>

\* readFile(__manifest__.py) of lintDataFile settles
ManifestReadSettles(p) ==
    /\ p \in passes
    /\ p.pc = "readManifest"
    /\ Finish(p, p.problems \o ManifestDataRule(p))
    /\ UNCHANGED <<impl, fs, docText, timers, lintingTimeout, nextId, background,
                   lastStarted, sinceTrigger, sinceStart, burst, walk, lint, data, ruleRun>>

\* a read of a rule that was not awaited settles (JavaScript): the rule
\* pushes its finding into the array of a pass that has already stored
BackgroundReadSettles(b) ==
    /\ b \in background
    /\ background' = background \ {b}
    /\ UNCHANGED <<impl, fs, docText, timers, lintingTimeout, nextId, passes,
                   store, storedBy, lastStarted, sinceTrigger, sinceStart, burst,
                   owed, lastDone, walk, lint, data, ruleRun>>

InitExt(im, layouts) ==
    /\ impl = im
    /\ fs \in layouts
    /\ docText = [d \in LintableDocs |-> 0]
    /\ timers = {}
    /\ lintingTimeout = 0
    /\ nextId = 0
    /\ passes = {}
    /\ background = {}
    /\ store = [d \in Docs |-> <<>>]
    /\ storedBy = [d \in Docs |-> 0]
    /\ lastStarted = [d \in Docs |-> 0]
    /\ sinceTrigger = 0
    /\ sinceStart = DebounceMs
    /\ burst = NoBurst
    /\ owed = [d \in Docs |-> FALSE]
    /\ lastDone = NoDone

\* the TypeScript extension (src/odoo-linter)
Init == InitExt("ts", FsLayouts) /\ walk = Idle /\ lint = Idle /\ data = Idle
        /\ ruleRun = Idle

Next ==
    \/ \E d \in Docs, kind \in TriggerKinds("ts") : TriggerLinting(d, kind)
    \/ Tick
    \/ \E t \in timers : TimerFires(t)
    \/ \E p \in passes : StatSettles(p)
    \/ \E p \in passes : InitReadSettles(p)
    \/ \E p \in passes : AccessReadSettles(p)
    \/ \E p \in passes : ManifestReadSettles(p)

Spec == Init /\ [][Next]_vars

\* the TypeScript extension on a module whose directory has no readable
\* __init__.py
NoInitPy == [InModule EXCEPT !.initPy = "absent"]

NoInitPyLayouts ==
    { [d \in Docs |-> IF d = "a.py" THEN NoInitPy
                      ELSE IF d = "v.xml" THEN Declared ELSE NoModule],
      [d \in Docs |-> IF d = "a.py" THEN [NoInitPy EXCEPT !.accessCsv = "row"]
                      ELSE IF d = "v.xml" THEN InModule ELSE NoModule] }

InitNoInitPy == InitExt("ts", NoInitPyLayouts) /\ walk = Idle /\ lint = Idle
                /\ data = Idle /\ ruleRun = Idle

SpecNoInitPy == InitNoInitPy /\ [][Next]_vars

\* the manifest of the module of a document with stored findings is
\* deleted or renamed: every later stat of it fails
ManifestRemoved(d) ==
    /\ fs[d].manifests # {}
    /\ store[d] # <<>>
    /\ fs' = [fs EXCEPT ![d].manifests = {}]
    /\ UNCHANGED <<impl, docText, timers, lintingTimeout, nextId, passes, background,
                   store, storedBy, lastStarted, sinceTrigger, sinceStart, burst,
                   owed, lastDone, walk, lint, data, ruleRun>>

NextRemoved ==
    \/ Next
    \/ \E d \in LintableDocs : ManifestRemoved(d)

\* the TypeScript extension on a filesystem that loses manifests
SpecRemoved == Init /\ [][NextRemoved]_vars

\* the JavaScript extension (src/odoo-linter-js)
InitJs == InitExt("js", FsLayouts) /\ walk = Idle /\ lint = Idle /\ data = Idle
        /\ ruleRun = Idle

NextJs ==
    \/ \E d \in Docs, kind \in TriggerKinds("js") : TriggerLinting(d, kind)
    \/ Tick
    \/ \E t \in timers : TimerFires(t)
    \/ \E p \in passes : StatSettles(p)
    \/ \E p \in passes : ManifestReadSettles(p)
    \/ \E b \in background : BackgroundReadSettles(b)

SpecJs == InitJs /\ [][NextJs]_vars


(* ------------------------------------------------------------------ *)
(* findOdooModuleRoot on its own: every file depth and manifest layout *)
(* ------------------------------------------------------------------ *)

ParkedExt == InitExt("ts", {[d \in Docs |-> NoModule]})

\* at most two ancestors carry a manifest
ManifestLayouts(depth) ==
    {m \in SUBSET (0..depth) : Cardinality(m) <= 2}

InitWalk ==
    /\ ParkedExt
    /\ lint = Idle
    /\ data = Idle
    /\ ruleRun = Idle
    /\ \E depth \in 0..MaxDepth :
         \E m \in ManifestLayouts(depth) :
            walk = [pc |-> "walk", depth |-> depth, manifests |-> m,
                    w |-> WalkStart(depth), examined |-> <<>>]

\* the awaited stat of the current directory settles
WalkStatSettles ==
    /\ walk.pc = "walk"
    /\ walk.w.status = "stat"
    /\ walk' = [walk EXCEPT
                  !.w = FindOdooModuleRootStep(walk.w, walk.manifests),
                  !.examined = Append(@, walk.w.dir)]
    /\ UNCHANGED <<extVars, lint, data, ruleRun>>

NextWalk == WalkStatSettles

SpecWalk == InitWalk /\ [][NextWalk]_vars /\ WF_vars(WalkStatSettles)

(* ------------------------------------------------------------------ *)
(* OdooLinter.lintDocument (odooLinter.js)                             *)
(* ------------------------------------------------------------------ *)

\* findings one rule can report in a run
MaxFound == 2

File(dirs, stem, ext) == [dirs |-> dirs, stem |-> stem, ext |-> ext]

\* document.uri.fsPath of the documents linted
LintFiles ==
    { File({"m", "models"}, "__init__", "py"),
      File({"m"}, "__init__", "py"),
      File({"m"}, "__manifest__", "py"),
      File({"m", "models"}, "a", "py"),
      File({"m"}, "README", "md") }

\* the rules lintDocument runs for a file, in the order it runs them:
\* includes('/models/') && endsWith('__init__.py'), endsWith('__manifest__.py'),
\* endsWith('.py')
RulesFor(f) ==
    IF "models" \in f.dirs /\ f.stem = "__init__" /\ f.ext = "py"
    THEN <<"checkModelImports">>
    ELSE IF f.stem = "__manifest__" /\ f.ext = "py"
         THEN <<"checkManifest">>
         ELSE IF f.ext = "py"
              THEN <<"checkUnusedImports", "checkOdooModels">>
              ELSE <<>>

\* !text.trim()
IsBlank(text) == text \in {"empty", "blank"}

\* the error leaves lintDocument
OnErrorRethrow(l) == [l EXCEPT !.pc = "done", !.result = <<>>, !.rejected = TRUE]

\* catch (error) { console.error(...); return []; }
OnError(l) == [l EXCEPT !.pc = "done", !.result = <<>>]

RuleFindings(rule, n) == [i \in 1..n |-> [rule |-> rule, n |-> i]]

InitLint ==
    /\ ParkedExt
    /\ walk = Idle
    /\ data = Idle
    /\ ruleRun = Idle
    /\ \E text \in {"empty", "blank", "code"},
          parser \in {"tree", "null", "throws"},
          f \in LintFiles :
         lint = [pc |-> "call", text |-> text, parser |-> parser, file |-> f,
                 k |-> 0, diagnostics |-> <<>>, result |-> <<>>, parsed |-> 0,
                 completed |-> <<>>, failed |-> {}, rejected |-> FALSE]

\* const text = document.getText(); if (!text.trim()) return [];
LintEnter ==
    /\ lint.pc = "call"
    /\ lint' = IF IsBlank(lint.text)
               THEN [lint EXCEPT !.pc = "done", !.result = <<>>]
               ELSE [lint EXCEPT !.pc = "parse"]
    /\ UNCHANGED <<extVars, walk, data, ruleRun>>

\* const tree = this.parser.parse(text); if (!tree) return [];
LintParse ==
    /\ lint.pc = "parse"
    /\ LET l == [lint EXCEPT !.parsed = @ + 1]
       IN lint' = CASE lint.parser = "throws" -> OnError(l)
                    [] lint.parser = "null" ->
                          [l EXCEPT !.pc = "done", !.result = <<>>]
                    [] OTHER ->
                          IF RulesFor(lint.file) = <<>>
                          THEN [l EXCEPT !.pc = "done", !.result = l.diagnostics]
                          ELSE [l EXCEPT !.pc = "rule", !.k = 1]
    /\ UNCHANGED <<extVars, walk, data, ruleRun>>

\* the next rule of the file runs: it pushes its findings into diagnostics
\* and returns, or it throws after pushing some of them
LintRule(found, throws) ==
    /\ lint.pc = "rule"
    /\ LET rule == RulesFor(lint.file)[lint.k]
           l == [lint EXCEPT !.diagnostics = @ \o RuleFindings(rule, found)]
       IN lint' = IF throws
                  THEN OnError([l EXCEPT !.failed = @ \cup {rule}])
                  ELSE LET m == [l EXCEPT !.completed = @ \o RuleFindings(rule, found)]
                       IN IF lint.k = Len(RulesFor(lint.file))
                          THEN [m EXCEPT !.pc = "done", !.result = m.diagnostics]
                          ELSE [m EXCEPT !.k = @ + 1]
    /\ UNCHANGED <<extVars, walk, data, ruleRun>>

NextLint ==
    \/ LintEnter
    \/ LintParse
    \/ \E found \in 0..MaxFound, throws \in BOOLEAN : LintRule(found, throws)

SpecLint == InitLint /\ [][NextLint]_vars

(* ------------------------------------------------------------------ *)
(* lintDataFile with XMLValidator and XMLParser                        *)
(* ------------------------------------------------------------------ *)

\* id attributes in one document
MaxIds == 3

IdValues == {"x", "y"}

SeqsUpTo(S, n) == UNION {[1..k -> S] : k \in 0..n}

\* what lintDataFile observes of a document:
\* empty     : the trimmed text is empty
\* startsXml : the trimmed text starts with <?xml
\* declUtf8  : /^<\?xml[^>]+\?>/ matches and the match has encoding utf-8
\* line0Utf8 : the first line contains encoding="utf-8" or encoding='utf-8'
\* valid     : XMLValidator.validate returns true
\* parse     : XMLParser.parse throws, or returns an empty or a non-empty array
\* odooRoot  : an element of the parsed array has the key odoo or openerp
\* ids       : the values the id pattern matches, one per line, in line order
\* manifest  : readFile(__manifest__.py) and whether the file is declared
XmlDocs ==
    {x \in [empty : BOOLEAN, startsXml : BOOLEAN, declMatch : BOOLEAN,
            declUtf8 : BOOLEAN, line0Utf8 : BOOLEAN, valid : BOOLEAN,
            parse : {"array", "emptyArray", "throws"}, odooRoot : BOOLEAN,
            ids : SeqsUpTo(IdValues, MaxIds),
            manifest : {"unreadable", "declared", "undeclared"}] :
        /\ x.declMatch => x.startsXml
        /\ x.declUtf8 => x.declMatch
        /\ x.line0Utf8 => x.startsXml
        /\ x.empty => /\ ~x.startsXml /\ ~x.valid /\ ~x.odooRoot
                      /\ x.parse = "throws" /\ x.ids = <<>>
        /\ ~x.valid => x.parse = "throws" /\ ~x.odooRoot
        /\ x.parse # "array" => ~x.odooRoot}

Problem(code, severity, line) == [code |-> code, severity |-> severity, line |-> line]

\* a return after the missing-root finding as well
ReturnsEarlyOnRoot(stage, x) ==
    CASE stage = "empty" -> x.empty
      [] stage = "validate" -> ~x.valid
      [] stage = "parse" -> x.parse # "array"
      [] OTHER -> ~x.odooRoot

\* the return statements of lintDataFile: after the empty-file finding,
\* after the syntax error of the validator, after a parser exception or an
\* empty parse result; none after the root-element findings
ReturnsEarly(stage, x) ==
    CASE stage = "empty" -> x.empty
      [] stage = "validate" -> ~x.valid
      [] stage = "parse" -> x.parse # "array"
      [] OTHER -> FALSE

\* PASO 1: the checks of the declaration on the trimmed text
DeclarationChecks(x) ==
    (IF ~x.startsXml
     THEN <<Problem("MISSING_XML_DECLARATION", "Error", 0)>> ELSE <<>>)
    \o (IF x.declMatch /\ ~x.declUtf8
        THEN <<Problem("INVALID_ENCODING", "Warning", 0)>> ELSE <<>>)

\* PASO 4: the root element searched in the parsed array
RootElementCheck(x) ==
    IF ~x.odooRoot THEN <<Problem("MISSING_ROOT_ELEMENT", "Error", 0)>> ELSE <<>>

\* the declaration checked again on the text and its first line
DeclarationTextChecks(x) ==
    IF ~x.startsXml
    THEN <<Problem("XML_DECLARATION", "Warning", 0)>>
    ELSE IF ~x.line0Utf8
         THEN <<Problem("XML_ENCODING", "Warning", 0)>> ELSE <<>>

\* 'odoo' in parsedXml, 'openerp' in parsedXml: parsedXml is the array of
\* the parser (preserveOrder), whose keys are its indices
RootTagCheck(x) == <<Problem("ROOT_TAG", "Error", 0)>>

\* the lines of the occurrences of an id, in line order
LinesOf(ids, id) ==
    LET F[k \in 0..Len(ids)] ==
          IF k = 0 THEN <<>>
          ELSE IF ids[k] = id THEN Append(F[k - 1], k) ELSE F[k - 1]
    IN F[Len(ids)]

\* the distinct ids in the order of their first occurrence (Map order)
IdOrder(ids) ==
    LET F[k \in 0..Len(ids)] ==
          IF k = 0 THEN <<>>
          ELSE IF \E j \in 1..(k - 1) : ids[j] = ids[k]
               THEN F[k - 1] ELSE Append(F[k - 1], ids[k])
    IN F[Len(ids)]

\* one Error per occurrence of an id that occurs more than once
DuplicateIdCheck(x) ==
    LET order == IdOrder(x.ids)
        F[k \in 0..Len(order)] ==
          IF k = 0 THEN <<>>
          ELSE LET ls == LinesOf(x.ids, order[k])
               IN IF Len(ls) > 1
                  THEN F[k - 1] \o [i \in 1..Len(ls) |->
                          [code |-> "DUPLICATE_ID", severity |-> "Error",
                           line |-> ls[i], id |-> order[k]]]
                  ELSE F[k - 1]
    IN F[Len(order)]

\* the Warning of the manifest rule; a failed read is caught and logged
ManifestDeclarationCheck(x) ==
    IF x.manifest = "undeclared"
    THEN <<Problem("UNDECLARED", "Warning", 0)>> ELSE <<>>

InitData ==
    /\ ParkedExt
    /\ walk = Idle
    /\ lint = Idle
    /\ ruleRun = Idle
    /\ \E x \in XmlDocs :
         data = [pc |-> "call", x |-> x, problems |-> <<>>, evaluated |-> {}]

DataReturn(dt) == [dt EXCEPT !.pc = "done"]

\* PASO 1: empty file, declaration
DataBasicChecks ==
    /\ data.pc = "call"
    /\ LET x == data.x
       IN data' =
            IF ReturnsEarly("empty", x)
            THEN DataReturn([data EXCEPT
                    !.problems = @ \o <<Problem("EMPTY_FILE", "Error", 0)>>,
                    !.evaluated = @ \cup {"empty"}])
            ELSE [data EXCEPT !.problems = @ \o DeclarationChecks(x),
                              !.evaluated = @ \cup {"empty", "prolog"},
                              !.pc = "validate"]
    /\ UNCHANGED <<extVars, walk, lint, ruleRun>>

\* PASO 2: XMLValidator.validate
DataValidate ==
    /\ data.pc = "validate"
    /\ LET x == data.x
           dt == [data EXCEPT !.evaluated = @ \cup {"syntax"}]
       IN data' =
            IF ReturnsEarly("validate", x)
            THEN DataReturn([dt EXCEPT
                    !.problems = @ \o <<Problem("XML_SYNTAX_ERROR", "Error", 0)>>])
            ELSE [dt EXCEPT !.pc = "parse"]
    /\ UNCHANGED <<extVars, walk, lint, ruleRun>>

\* PASO 3 and 4: XMLParser.parse, the structure checks and the rules on the
\* lines, up to the awaited read of the manifest
DataParseAndRules ==
    /\ data.pc = "parse"
    /\ LET x == data.x
       IN data' =
            IF ReturnsEarly("parse", x)
            THEN DataReturn([data EXCEPT
                    !.problems = @ \o
                       <<Problem(IF x.parse = "throws" THEN "XML_STRUCTURE_ERROR"
                                 ELSE "INVALID_ROOT_STRUCTURE", "Error", 0)>>])
            ELSE LET dt == [data EXCEPT
                              !.problems = @ \o RootElementCheck(x),
                              !.evaluated = @ \cup {"root"}]
                 IN IF ReturnsEarly("root", x)
                    THEN DataReturn(dt)
                    ELSE [dt EXCEPT
                            !.problems = @ \o DeclarationTextChecks(x)
                                           \o RootTagCheck(x)
                                           \o DuplicateIdCheck(x),
                            !.evaluated = @ \cup {"duplicateId"},
                            !.pc = "readManifest"]
    /\ UNCHANGED <<extVars, walk, lint, ruleRun>>

\* readFile(__manifest__.py) settles
DataManifestSettles ==
    /\ data.pc = "readManifest"
    /\ data' = DataReturn([data EXCEPT
                  !.problems = @ \o ManifestDeclarationCheck(data.x),
                  !.evaluated = @ \cup {"manifest"}])
    /\ UNCHANGED <<extVars, walk, lint, ruleRun>>

NextData ==
    \/ DataBasicChecks
    \/ DataValidate
    \/ DataParseAndRules
    \/ DataManifestSettles

SpecData == InitData /\ [][NextData]_vars

(* ------------------------------------------------------------------ *)
(* The rules, each applied on its own to the inputs it reads          *)
(* ------------------------------------------------------------------ *)

Parked ==
    /\ ParkedExt
    /\ walk = Idle
    /\ lint = Idle
    /\ data = Idle

Call(fn, in) == [pc |-> "call", fn |-> fn, in |-> in, out |-> <<>>]

Return(r, by, out) == [r EXCEPT !.pc = "done", !.fn = by, !.out = out]

\* s starts with p (both sequences of characters)
StartsWith(s, p) ==
    /\ Len(p) <= Len(s)
    /\ \A i \in 1..Len(p) : s[i] = p[i]

Diagnostic(severity, message) == [severity |-> severity, message |-> message]

(* ---- the import of a unit in the __init__.py of its directory ---- *)

\* names of source units, as sequences of characters
UnitNames == {<<"m">>, <<"m", "o">>, <<"x">>, <<"y">>}

\* the text of __init__.py as the import lists of its statements
\* 'from . import n1, n2, ...', one list per statement
InitPyOf(a, b, form) ==
    IF form = "one" THEN << <<a, b>> >> ELSE << <<a>>, <<b>> >>

\* new RegExp(`from\s+\.\s+import\s+${moduleName}`).test(initPyContent):
\* the pattern matches where the text that follows 'from . import ' starts
\* with the characters of moduleName, that is at the first name of a list
ImportPatternTest(initPy, moduleName) ==
    \E i \in 1..Len(initPy) : StartsWith(initPy[i][1], moduleName)

\* lintPythonFile, step 1 (extension.ts), lintMissingInitImport
\* (extension.js): the findings for the document unit.py
LintMissingInitImport(initPy, unit) ==
    IF ~ImportPatternTest(initPy, unit)
    THEN <<[severity |-> "Warning", message |-> "not imported in __init__.py",
            unit |-> unit]>>
    ELSE <<>>

\* importNode.childForFieldName('name') and its namedChildren: the names
\* the loop adds for one statement. The syntax tree is the parser's: the
\* field is either one node holding the whole list, or the node of the
\* first imported name
ImportedNamesOf(stmt, tree) ==
    IF tree = "list" THEN {stmt[k] : k \in 1..Len(stmt)} ELSE {stmt[1]}

ImportedModules(initPy, tree) ==
    UNION {ImportedNamesOf(initPy[i], tree) : i \in 1..Len(initPy)}

\* OdooLinter.checkModelImports on __init__.py: one Warning that lists the
\* files of the directory that are not imported
CheckModelImports(initPy, pythonFiles, tree) ==
    LET imported == ImportedModules(initPy, tree)
        notImportedFiles == SelectSeq(pythonFiles, LAMBDA f : f \notin imported)
    IN IF Len(notImportedFiles) > 0
       THEN <<[severity |-> "Warning",
               message |-> "models not imported in __init__.py",
               units |-> notImportedFiles]>>
       ELSE <<>>

ImportInputs ==
    {[a |-> a, b |-> b, c |-> c, form |-> form, unit |-> u, tree |-> t] :
        a \in UnitNames, b \in UnitNames, c \in UnitNames,
        form \in {"one", "separate"}, u \in UnitNames, t \in {"list", "first"}}

InitImports ==
    /\ Parked
    /\ \E in \in ImportInputs :
         /\ in.a # in.b
         /\ in.c \notin {in.a, in.b}
         /\ in.unit \in {in.a, in.b, in.c}
         /\ ruleRun = Call("imports", in)

\* the extension lints the document unit.py
RunLintMissingInitImport ==
    /\ ruleRun.pc = "call"
    /\ ruleRun.fn = "imports"
    /\ ruleRun' = Return(ruleRun, "lintMissingInitImport",
                      LintMissingInitImport(
                          InitPyOf(ruleRun.in.a, ruleRun.in.b, ruleRun.in.form),
                          ruleRun.in.unit))
    /\ UNCHANGED <<extVars, walk, lint, data>>

\* the linter object lints the __init__.py of the directory
RunCheckModelImports ==
    /\ ruleRun.pc = "call"
    /\ ruleRun.fn = "imports"
    /\ ruleRun' = Return(ruleRun, "checkModelImports",
                      CheckModelImports(
                          InitPyOf(ruleRun.in.a, ruleRun.in.b, ruleRun.in.form),
                          <<ruleRun.in.a, ruleRun.in.b, ruleRun.in.c>>,
                          ruleRun.in.tree))
    /\ UNCHANGED <<extVars, walk, lint, data>>

NextImports ==
    \/ RunLintMissingInitImport
    \/ RunCheckModelImports

SpecImports == InitImports /\ [][NextImports]_vars

(* ---- the model attributes and the access table (regex rules) ---- *)

\* fields without string= in one file
MaxFields == 1

\* values of _name, as sequences of characters
ModelNames == {<<"a", ".", "b">>, <<"a">>, <<"a", ".", "b", ".", "c">>}

\* no match of /_name\s*=\s*['"]([^'"]+)['"]/
NoName == <<>>

\* lines of security/ir.model.access.csv, as sequences of characters
\* ("model_" and "access_" stand for their characters)
AccessRows ==
    { <<"access_", "a", "_", "b", ",", "model_", "a", "_", "b">>,
      <<"access_", "a", ",", "model_", "a">>,
      <<"access_", "a", ".", "b", ",", "model_", "a", ".", "b">>,
      <<"access_", "x", ",", "model_", "x">> }

\* String.prototype.includes on sequences of characters
Includes(s, sub) ==
    \E k \in 0..(Len(s) - Len(sub)) :
        \A i \in 1..Len(sub) : s[k + i] = sub[i]

\* the model id without the replacement of the dots
ModelIdDotted(modelName) == <<"model_">> \o modelName

\* `model_${modelName.replace(/\./g, '_')}`
ModelId(modelName) ==
    <<"model_">> \o [i \in 1..Len(modelName) |->
                        IF modelName[i] = "." THEN "_" ELSE modelName[i]]

\* the access check of lintModelAccess and of lintMissingModelAccess:
\* readFile fails -> the Warning about the missing file; no line includes
\* the model id -> the Warning about the missing rules
AccessCheck(modelName, csv) ==
    IF ~csv.exists
    THEN <<[severity |-> "Warning", message |-> "no-access-file",
            model |-> modelName]>>
    ELSE IF ~\E row \in csv.rows : Includes(row, ModelId(modelName))
         THEN <<[severity |-> "Warning", message |-> "no-access-rules",
                 model |-> modelName]>>
         ELSE <<>>

\* lintModelAccess (extension.ts) on a file that contains models.Model:
\* src.name is the first match of _name = '...' (NoName without a match),
\* src.inherit whether _inherit = '...' matches
LintModelAccess(src, csv) ==
    IF src.name = NoName
    THEN IF ~src.inherit
         THEN <<[severity |-> "Error", message |-> "no-name-or-inherit",
                 model |-> NoName]>>
         ELSE <<>>
    ELSE (IF ~src.description
          THEN <<[severity |-> "Warning", message |-> "no-description",
                  model |-> src.name]>> ELSE <<>>)
         \o (IF ~Includes(src.name, <<".">>)
             THEN <<[severity |-> "Warning", message |-> "name-convention",
                     model |-> src.name]>> ELSE <<>>)
         \o [i \in 1..src.fields |->
                [severity |-> "Information", message |-> "field-string",
                 model |-> src.name]]
         \o AccessCheck(src.name, csv)

\* lintMissingModelAccess (extension.js)
LintMissingModelAccess(src, csv) ==
    IF src.name = NoName THEN <<>> ELSE AccessCheck(src.name, csv)

ModelSources ==
    [name : ModelNames \cup {NoName}, inherit : BOOLEAN,
     description : BOOLEAN, fields : 0..MaxFields]

AccessTables ==
    {[exists |-> FALSE, rows |-> {}]}
    \cup {[exists |-> TRUE, rows |-> r] : r \in SUBSET AccessRows}

InitAccess ==
    /\ Parked
    /\ \E src \in ModelSources, csv \in AccessTables :
         ruleRun = Call("access", [src |-> src, csv |-> csv])

RunLintModelAccess ==
    /\ ruleRun.pc = "call"
    /\ ruleRun.fn = "access"
    /\ ruleRun' = Return(ruleRun, "lintModelAccess",
                         LintModelAccess(ruleRun.in.src, ruleRun.in.csv))
    /\ UNCHANGED <<extVars, walk, lint, data>>

RunLintMissingModelAccess ==
    /\ ruleRun.pc = "call"
    /\ ruleRun.fn = "access"
    /\ ruleRun' = Return(ruleRun, "lintMissingModelAccess",
                         LintMissingModelAccess(ruleRun.in.src, ruleRun.in.csv))
    /\ UNCHANGED <<extVars, walk, lint, data>>

NextAccess ==
    \/ RunLintModelAccess
    \/ RunLintMissingModelAccess

SpecAccess == InitAccess /\ [][NextAccess]_vars

(* ---- the declaration of a data file in __manifest__.py ---- *)

\* paths of data files, relative to the module root
DataPaths == {"views/v.xml", "data/d.xml"}

\* a key of the manifest dictionary with a list value: the quote its key
\* is written with ("none": the key is not in the dictionary) and the
\* paths its list holds
ListKeys == [quote : {"single", "double", "none"}, files : SUBSET DataPaths]

\* the text of __manifest__.py, or a read that fails
ManifestTexts == [readable : BOOLEAN, data : ListKeys, demo : ListKeys]

\* manifestContent.match(/'data'\s*:\s*\[([^\]]*)\]/) and the split of its
\* group: the pattern names the key in single quotes
ListedFiles(key) ==
    IF key.quote = "single" THEN key.files ELSE {}

\* the manifest check of lintDataFile (extension.ts, extension.js, and the
\* end of lintDataFile with the XML parser): a failed read is caught
LintDataFileManifest(manifest, relativePath) ==
    IF ~manifest.readable
    THEN <<>>
    ELSE IF /\ relativePath \notin ListedFiles(manifest.data)
            /\ relativePath \notin ListedFiles(manifest.demo)
         THEN <<[severity |-> "Warning", message |-> "undeclared",
                 path |-> relativePath]>>
         ELSE <<>>

InitDeclared ==
    /\ Parked
    /\ \E manifest \in ManifestTexts, p \in DataPaths :
         /\ manifest.data.quote = "none" => manifest.data.files = {}
         /\ manifest.demo.quote = "none" => manifest.demo.files = {}
         /\ ruleRun = Call("declared", [manifest |-> manifest, path |-> p])

RunLintDataFileManifest ==
    /\ ruleRun.pc = "call"
    /\ ruleRun.fn = "declared"
    /\ ruleRun' = Return(ruleRun, "lintDataFile",
                         LintDataFileManifest(ruleRun.in.manifest, ruleRun.in.path))
    /\ UNCHANGED <<extVars, walk, lint, data>>

NextDeclared == RunLintDataFileManifest

SpecDeclared == InitDeclared /\ [][NextDeclared]_vars

(* ---- OdooLinter.checkManifest ---- *)

\* a string node: its text is the quote, the characters, the quote
Str(quote, chars) == [type |-> "string", quote |-> quote, chars |-> chars, files |-> {}]

ListNode(files) == [type |-> "list", quote |-> "none", chars |-> "", files |-> files]

DictNode == [type |-> "dictionary", quote |-> "none", chars |-> "", files |-> {}]

Pair(depth, key, value) == [depth |-> depth, key |-> key, value |-> value]

\* what is written in a __manifest__.py:
\* dict    : the file has a dictionary
\* top     : the keys among name, version, license of that dictionary
\* keyQuote: the quote the keys are written with
\* license, licenseQuote : the license string and its quote
\* author  : the author string ("none": no author key)
\* data    : "none": no data key, "empty": 'data': [], "listed": the list
\*           holds views/v.xml
\* nested  : the keys of a dictionary nested in the manifest dictionary
\*           (the value of its last key)
\* views   : the views directory: "absent", "empty" or "file" (v.xml)
ManifestSources ==
    {f \in [dict : BOOLEAN, top : SUBSET {"name", "version", "license"},
            keyQuote : {"single", "double"},
            license : {"LGPL-3", "MIT"}, licenseQuote : {"single", "double"},
            author : {"none", "Odoo S.A.", "me"},
            data : {"none", "empty", "listed"},
            nested : SUBSET {"name", "license"},
            views : {"absent", "empty", "file"}] :
        /\ "license" \notin f.top => f.license = "LGPL-3" /\ f.licenseQuote = "single"
        /\ ~f.dict => /\ f.top = {} /\ f.nested = {} /\ f.author = "none"
                      /\ f.data = "none" /\ f.keyQuote = "single"
                      /\ f.views = "absent"}

TopKeys(f) ==
    SelectSeq(<<"name", "version", "author", "license", "data">>,
              LAMBDA k : \/ k \in f.top
                         \/ k = "author" /\ f.author # "none"
                         \/ k = "data" /\ f.data # "none")

TopValue(f, k) ==
    CASE k = "license" -> Str(f.licenseQuote, f.license)
      [] k = "author" -> Str("single", f.author)
      [] k = "data" -> ListNode(IF f.data = "listed" THEN {"views/v.xml"} ELSE {})
      [] OTHER -> Str("single", "m")

NestedKeys(f) ==
    SelectSeq(<<"name", "license">>, LAMBDA k : k \in f.nested)

\* getNodesByType(dictNode, 'pair'): the pairs of the dictionary and of the
\* dictionaries nested in it, in document order
PairNodes(f) ==
    LET top == TopKeys(f)
        nested == NestedKeys(f)
    IN [i \in 1..Len(top) |->
           Pair(1, Str(f.keyQuote, top[i]), TopValue(f, top[i]))]
       \o (IF nested = <<>> THEN <<>>
           ELSE <<Pair(1, Str(f.keyQuote, "external_dependencies"), DictNode)>>
                \o [i \in 1..Len(nested) |->
                       Pair(2, Str(f.keyQuote, nested[i]), Str("single", "x"))])

\* manifest.has(key) for the Map filled with keyNode.text.replace(/['"]/g, '')
ManifestHas(pairs, key) == \E i \in 1..Len(pairs) : pairs[i].key.chars = key

\* manifest.get(key).value: the pair set last wins
ManifestGet(pairs, key) ==
    LET last == CHOOSE i \in 1..Len(pairs) :
                   /\ pairs[i].key.chars = key
                   /\ \A j \in (i + 1)..Len(pairs) : pairs[j].key.chars # key
    IN pairs[last].value

\* the licenses of validLicenses, each written there in single quotes
ValidLicenses == {"LGPL-3", "AGPL-3", "OEEL-1", "OPL-1", "Other OSI approved licence"}

\* validLicenses.includes(node.text)
IsValidLicense(node) ==
    node.type = "string" /\ node.quote = "single" /\ node.chars \in ValidLicenses

ManifestFinding(message, anchor, node) ==
    [severity |-> "Warning", message |-> message, anchor |-> anchor, node |-> node]

\* for (const key of requiredKeys) if (!manifest.has(key)) ...
RequiredKeysCheck(pairs) ==
    LET keys == <<"name", "version">>
        missing == SelectSeq(keys, LAMBDA k : ~ManifestHas(pairs, k))
    IN [i \in 1..Len(missing) |->
           ManifestFinding("missing-key", "dictionary", Str("single", missing[i]))]

AuthorCheck(pairs) ==
    IF ManifestHas(pairs, "author") /\ ManifestGet(pairs, "author").chars = "Odoo S.A."
    THEN <<ManifestFinding("author", "value", ManifestGet(pairs, "author"))>>
    ELSE <<>>

\* if (!manifest.has('license')) ... else if (!validLicenses.includes(...))
LicenseCheck(pairs) ==
    IF ~ManifestHas(pairs, "license")
    THEN <<ManifestFinding("missing-license", "dictionary", DictNode)>>
    ELSE IF ~IsValidLicense(ManifestGet(pairs, "license"))
         THEN <<ManifestFinding("invalid-license", "value", ManifestGet(pairs, "license"))>>
         ELSE <<>>

\* the view files of the views directory against the data (or views) list;
\* a failed readDirectory is caught
ViewsCheck(pairs, views) ==
    IF views = "absent"
    THEN <<>>
    ELSE LET xmlFilesOnDisk == IF views = "file" THEN {"views/v.xml"} ELSE {}
             key == IF ManifestHas(pairs, "data") THEN "data"
                    ELSE IF ManifestHas(pairs, "views") THEN "views" ELSE "none"
         IN IF key # "none"
            THEN LET node == ManifestGet(pairs, key)
                     manifestFiles == IF node.type = "list" THEN node.files ELSE {}
                 IN IF xmlFilesOnDisk \ manifestFiles # {}
                    THEN <<ManifestFinding("views-undeclared", "value", node)>>
                    ELSE <<>>
            ELSE IF xmlFilesOnDisk # {}
                 THEN <<ManifestFinding("missing-data", "dictionary", DictNode)>>
                 ELSE <<>>

\* OdooLinter.checkManifest (odooLinter.js, the class with the vscode
\* parameter)
CheckManifest(f) ==
    IF ~f.dict
    THEN <<>>
    ELSE LET pairs == PairNodes(f)
         IN RequiredKeysCheck(pairs) \o AuthorCheck(pairs)
            \o LicenseCheck(pairs) \o ViewsCheck(pairs, f.views)

\* OdooLinter.checkManifest of the earlier class: one loop over the pairs
\* for author and license, then the missing license
CheckManifestLoop(f) ==
    IF ~f.dict
    THEN <<>>
    ELSE LET pairs == PairNodes(f)
             F[k \in 0..Len(pairs)] ==
               IF k = 0 THEN <<>>
               ELSE LET p == pairs[k]
                    IN IF p.key.chars = "author" /\ p.key.quote # "none"
                       THEN IF p.value.chars = "Odoo S.A."
                            THEN Append(F[k - 1], ManifestFinding("author", "value", p.value))
                            ELSE F[k - 1]
                       ELSE IF p.key.chars = "license" /\ ~IsValidLicense(p.value)
                            THEN Append(F[k - 1],
                                        ManifestFinding("invalid-license", "value", p.value))
                            ELSE F[k - 1]
             hasLicense == \E k \in 1..Len(pairs) : pairs[k].key.chars = "license"
         IN F[Len(pairs)]
            \o (IF ~hasLicense
                THEN <<ManifestFinding("missing-license", "dictionary", DictNode)>>
                ELSE <<>>)

InitManifest ==
    /\ Parked
    /\ \E f \in ManifestSources : ruleRun = Call("manifest", f)

RunCheckManifest ==
    /\ ruleRun.pc = "call"
    /\ ruleRun.fn = "manifest"
    /\ ruleRun' = Return(ruleRun, "checkManifest", CheckManifest(ruleRun.in))
    /\ UNCHANGED <<extVars, walk, lint, data>>

RunCheckManifestLoop ==
    /\ ruleRun.pc = "call"
    /\ ruleRun.fn = "manifest"
    /\ ruleRun' = Return(ruleRun, "checkManifestLoop", CheckManifestLoop(ruleRun.in))
    /\ UNCHANGED <<extVars, walk, lint, data>>

NextManifest ==
    \/ RunCheckManifest
    \/ RunCheckManifestLoop

SpecManifest == InitManifest /\ [][NextManifest]_vars

(* ---- duplicate ids in an XML data file (extension.ts) ---- *)

\* lines of a file and attributes on a line
MaxLines == 2

MaxAttrs == 2

\* an attribute name="value" as written on a line; the name is a prefix
\* followed by its last word
Attrs ==
    [prefix : {"", "inherit_"}, word : {"id", "ref"}, value : IdValues]

XmlLines == SeqsUpTo(SeqsUpTo(Attrs, MaxAttrs), MaxLines)

\* /id=["']([^"']+)["']/g matches wherever the characters id= and a quoted
\* value occur, also at the end of a longer attribute name
IdPatternMatches(attr) == attr.word = "id"

\* the matches of the pattern on one line, in order
LineMatches(line) == SelectSeq(line, IdPatternMatches)

\* the Map ids: for each value matched, the indices of the lines of its
\* matches (one entry per match), as an association list in insertion order
IdsMap(lines) ==
    LET Add(map, id, index) ==
          IF \E k \in 1..Len(map) : map[k].id = id
          THEN [k \in 1..Len(map) |->
                   IF map[k].id = id
                   THEN [map[k] EXCEPT !.lineNumbers = Append(@, index)]
                   ELSE map[k]]
          ELSE Append(map, [id |-> id, lineNumbers |-> <<index>>])
        L[n \in 0..Len(lines)] ==
          IF n = 0 THEN <<>>
          ELSE LET ms == LineMatches(lines[n])
                   M[j \in 0..Len(ms)] ==
                     IF j = 0 THEN L[n - 1]
                     ELSE Add(M[j - 1], ms[j].value, n - 1)
               IN M[Len(ms)]
    IN L[Len(lines)]

\* ids.forEach: an Error on each line number of a value matched more than
\* once
LintDuplicateIds(lines) ==
    LET map == IdsMap(lines)
        F[k \in 0..Len(map)] ==
          IF k = 0 THEN <<>>
          ELSE IF Len(map[k].lineNumbers) > 1
               THEN F[k - 1] \o
                    [i \in 1..Len(map[k].lineNumbers) |->
                        [severity |-> "Error", message |-> "duplicate-id",
                         id |-> map[k].id, line |-> map[k].lineNumbers[i]]]
               ELSE F[k - 1]
    IN F[Len(map)]

InitIds ==
    /\ Parked
    /\ \E lines \in XmlLines : ruleRun = Call("ids", lines)

RunLintDuplicateIds ==
    /\ ruleRun.pc = "call"
    /\ ruleRun.fn = "ids"
    /\ ruleRun' = Return(ruleRun, "lintDuplicateIds", LintDuplicateIds(ruleRun.in))
    /\ UNCHANGED <<extVars, walk, lint, data>>

NextIds == RunLintDuplicateIds

SpecIds == InitIds /\ [][NextIds]_vars

(* ---- the declaration and the root element of an XML data file ---- *)
(* ---- (text checks of lintDataFile, extension.ts) ---- *)

\* the XML declaration of a file: whether <?xml occurs, whether at the
\* start, the encoding it declares as written ("none": no encoding) and
\* the quote of the encoding value
XmlDeclarations ==
    {d \in [present : BOOLEAN, atStart : BOOLEAN,
            encoding : {"none", "utf-8", "UTF-8", "latin-1"},
            quote : {"single", "double"}] :
        ~d.present => ~d.atStart /\ d.encoding = "none" /\ d.quote = "double"}

\* the root element: its tag and whether the start tag has attributes
RootElements ==
    [tag : {"odoo", "openerp", "data"}, attributes : BOOLEAN]

\* xmlDeclaration.includes('encoding="utf-8"') ||
\* xmlDeclaration.includes("encoding='utf-8'")
IncludesUtf8Encoding(decl) == decl.encoding = "utf-8"

\* Check XML structure: the declaration and its encoding
LintXmlDeclaration(decl) ==
    IF ~decl.present
    THEN <<[severity |-> "Warning", message |-> "xml-declaration"]>>
    ELSE IF ~IncludesUtf8Encoding(decl)
         THEN <<[severity |-> "Warning", message |-> "xml-encoding"]>>
         ELSE <<>>

\* fileContent.includes('<odoo>') || fileContent.includes('<openerp>'):
\* the start tag written without attributes
IncludesRootTag(root) ==
    root.tag \in {"odoo", "openerp"} /\ ~root.attributes

\* Check for root element <odoo>
LintXmlRoot(root) ==
    IF ~IncludesRootTag(root)
    THEN <<[severity |-> "Error", message |-> "root-element"]>>
    ELSE <<>>

InitStructure ==
    /\ Parked
    /\ \E decl \in XmlDeclarations, root \in RootElements :
         ruleRun = Call("structure", [decl |-> decl, root |-> root])

RunLintXmlStructure ==
    /\ ruleRun.pc = "call"
    /\ ruleRun.fn = "structure"
    /\ ruleRun' = Return(ruleRun, "lintXmlStructure",
                         LintXmlDeclaration(ruleRun.in.decl)
                         \o LintXmlRoot(ruleRun.in.root))
    /\ UNCHANGED <<extVars, walk, lint, data>>

NextStructure == RunLintXmlStructure

SpecStructure == InitStructure /\ [][NextStructure]_vars

(* ---- OdooLinter.checkOdooModels ---- *)

\* class definitions in one file
MaxClasses == 2

\* a class_definition node: the texts of the children of its superclasses
\* node and the left sides of the assignments in its body
ClassNodes ==
    [bases : SUBSET {"models.Model", "models.TransientModel", "object"},
     assigns : SUBSET {"_name", "_inherit"}]

\* child.text === 'models.Model' || child.text === 'models.TransientModel'
IsOdooModel(class) ==
    \E b \in class.bases : b \in {"models.Model", "models.TransientModel"}

\* leftNode.text === '_name' for an assignment of the body
HasNameAttribute(class) == "_name" \in class.assigns

\* OdooLinter.checkOdooModels: a Warning on the name of each model class
\* without a _name assignment
CheckOdooModels(classNodes) ==
    LET F[k \in 0..Len(classNodes)] ==
          IF k = 0 THEN <<>>
          ELSE IF IsOdooModel(classNodes[k]) /\ ~HasNameAttribute(classNodes[k])
               THEN Append(F[k - 1],
                           [severity |-> "Warning", message |-> "missing-name",
                            class |-> k])
               ELSE F[k - 1]
    IN F[Len(classNodes)]

InitModels ==
    /\ Parked
    /\ \E classNodes \in SeqsUpTo(ClassNodes, MaxClasses) :
         ruleRun = Call("models", classNodes)

RunCheckOdooModels ==
    /\ ruleRun.pc = "call"
    /\ ruleRun.fn = "models"
    /\ ruleRun' = Return(ruleRun, "checkOdooModels", CheckOdooModels(ruleRun.in))
    /\ UNCHANGED <<extVars, walk, lint, data>>

NextModels == RunCheckOdooModels

SpecModels == InitModels /\ [][NextModels]_vars

(* ---- OdooLinter.checkUnusedImports ---- *)

\* import clauses in one file
MaxClauses == 3

Aliases == {"x", "y"}

\* an import clause of the tree: the alias it binds and whether the rule
\* collects it (an import_statement whose first child is a dotted_name, or
\* an import_from_as_name among the named children of the field 'names')
ImportClauses == [alias : Aliases, collected : BOOLEAN]

\* importedNames.set(alias, {node, used: false}): a Map keeps the position
\* of a key it already has and replaces its value
MapSet(map, alias, node) ==
    IF \E k \in 1..Len(map) : map[k].alias = alias
    THEN [k \in 1..Len(map) |->
             IF map[k].alias = alias
             THEN [alias |-> alias, node |-> node, used |-> FALSE]
             ELSE map[k]]
    ELSE Append(map, [alias |-> alias, node |-> node, used |-> FALSE])

\* the loop over importNodes: the Map of the aliases of the clauses
ImportedNames(clauses) ==
    LET F[k \in 0..Len(clauses)] ==
          IF k = 0 THEN <<>>
          ELSE IF clauses[k].collected
               THEN MapSet(F[k - 1], clauses[k].alias, k)
               ELSE F[k - 1]
    IN F[Len(clauses)]

\* the loop over nameNodes: identifiers that are not part of an import
\* statement (isPartOfImport) mark the alias of their text as used
MarkUsed(map, references) ==
    [k \in 1..Len(map) |->
        IF map[k].alias \in references THEN [map[k] EXCEPT !.used = TRUE]
        ELSE map[k]]

\* OdooLinter.checkUnusedImports: a Warning at the node of each entry that
\* is not used
CheckUnusedImports(clauses, references) ==
    LET map == MarkUsed(ImportedNames(clauses), references)
        unused == SelectSeq(map, LAMBDA entry : ~entry.used)
    IN [k \in 1..Len(unused) |->
           [severity |-> "Warning", message |-> "unused-import",
            alias |-> unused[k].alias, node |-> unused[k].node]]

InitUnused ==
    /\ Parked
    /\ \E clauses \in SeqsUpTo(ImportClauses, MaxClauses),
          references \in SUBSET Aliases :
         ruleRun = Call("unused", [clauses |-> clauses, references |-> references])

RunCheckUnusedImports ==
    /\ ruleRun.pc = "call"
    /\ ruleRun.fn = "unused"
    /\ ruleRun' = Return(ruleRun, "checkUnusedImports",
                         CheckUnusedImports(ruleRun.in.clauses, ruleRun.in.references))
    /\ UNCHANGED <<extVars, walk, lint, data>>

NextUnused == RunCheckUnusedImports

SpecUnused == InitUnused /\ [][NextUnused]_vars

(* ---- OdooLinter.getNodesByType ---- *)

\* nodes of a syntax tree
MaxNodes == 4

NodeTypes == {"a", "b"}

\* the ancestors of node j and j itself; parent[j] = 0 at the root
AncestorsOrSelf(parent, j) ==
    LET A[k \in 1..Len(parent)] ==
          {k} \cup (IF parent[k] = 0 THEN {} ELSE A[parent[k]])
    IN A[j]

\* syntax trees: the nodes are numbered in document order (a node before
\* its children, the children from left to right); node 1 is the root
SyntaxTrees ==
    UNION { { [parent |-> p, type |-> ty] :
                p \in {q \in [1..n -> 0..(n - 1)] :
                          /\ q[1] = 0
                          /\ \A j \in 2..n : q[j] \in AncestorsOrSelf(q, j - 1)},
                ty \in [1..n -> NodeTypes] } : n \in 1..MaxNodes }

\* node.children || []: the children from left to right
ChildrenOf(tree, node) ==
    SelectSeq([k \in 1..Len(tree.parent) |-> k],
              LAMBDA j : tree.parent[j] = node)

\* the nodes of a child put before what was collected
ConcatInFront(results, more) == more \o results

\* results.concat(more)
Concat(results, more) == results \o more

RECURSIVE GetNodesByType(_, _, _)
\* OdooLinter.getNodesByType(node, ...types)
GetNodesByType(tree, node, types) ==
    LET children == ChildrenOf(tree, node)
        results[k \in 0..Len(children)] ==
          IF k = 0
          THEN IF tree.type[node] \in types THEN <<node>> ELSE <<>>
          ELSE Concat(results[k - 1], GetNodesByType(tree, children[k], types))
    IN results[Len(children)]

InitNodes ==
    /\ Parked
    /\ \E tree \in SyntaxTrees, types \in SUBSET NodeTypes :
         ruleRun = Call("nodes", [tree |-> tree, types |-> types])

\* a call on the root of the tree
RunGetNodesByType ==
    /\ ruleRun.pc = "call"
    /\ ruleRun.fn = "nodes"
    /\ ruleRun' = Return(ruleRun, "getNodesByType",
                         GetNodesByType(ruleRun.in.tree, 1, ruleRun.in.types))
    /\ UNCHANGED <<extVars, walk, lint, data>>

\* a second call on the same tree
RunGetNodesByTypeAgain ==
    /\ ruleRun.pc = "done"
    /\ ruleRun.fn = "getNodesByType"
    /\ ruleRun' = Return(ruleRun, "getNodesByType again",
                         GetNodesByType(ruleRun.in.tree, 1, ruleRun.in.types))
    /\ UNCHANGED <<extVars, walk, lint, data>>

NextNodes == RunGetNodesByType \/ RunGetNodesByTypeAgain

SpecNodes == InitNodes /\ [][NextNodes]_vars

(* ---- the access rule on a file with several model classes ---- *)

\* model classes with a _name in one file
MaxModels == 2

\* fileContent.match(/_name\s*=\s*['"]([^'"]+)['"]/)[1]: the pattern has no
\* g flag, the match is the first _name assignment of the text; names is
\* the sequence of the _name values of the file, in the order of the text
NameMatch(names) == IF names = <<>> THEN NoName ELSE names[1]

InitUnit ==
    /\ Parked
    /\ \E names \in SeqsUpTo(ModelNames, MaxModels), csv \in AccessTables :
         ruleRun = Call("unit", [names |-> names, csv |-> csv])

\* lintModelAccess (extension.ts) on the text of the file
RunLintModelAccessOnUnit ==
    /\ ruleRun.pc = "call"
    /\ ruleRun.fn = "unit"
    /\ ruleRun' = Return(ruleRun, "lintModelAccess",
                         LintModelAccess([name |-> NameMatch(ruleRun.in.names),
                                          inherit |-> FALSE, description |-> TRUE,
                                          fields |-> 0],
                                         ruleRun.in.csv))
    /\ UNCHANGED <<extVars, walk, lint, data>>

\* lintMissingModelAccess (extension.js) on the text of the file
RunLintMissingModelAccessOnUnit ==
    /\ ruleRun.pc = "call"
    /\ ruleRun.fn = "unit"
    /\ ruleRun' = Return(ruleRun, "lintMissingModelAccess",
                         LintMissingModelAccess([name |-> NameMatch(ruleRun.in.names),
                                                 inherit |-> FALSE,
                                                 description |-> TRUE,
                                                 fields |-> 0],
                                                ruleRun.in.csv))
    /\ UNCHANGED <<extVars, walk, lint, data>>

NextUnit ==
    \/ RunLintModelAccessOnUnit
    \/ RunLintMissingModelAccessOnUnit

SpecUnit == InitUnit /\ [][NextUnit]_vars

(* ---- the ranges of the findings reported at the top of the file ---- *)

\* lines of a document
MaxDocLines == 2

\* lengths of a line: empty, one character, ten, and a line that holds
\* <?xml version="1.0"?> (21 characters)
LineLengths == {0, 1, 10, 21}

\* lengths of the match of /<\?xml[^?]*\?>/: 0 without a match, <?xml?>,
\* <?xml version="1.0"?>, and a declaration with an encoding
DeclarationLengths == {0, 7, 21, 38}

\* what the rules read of a document:
\* languageId, fileName : of the document
\* lineLen  : the length of each line of document.getText() (at least one)
\* declLine : the line on which '<?xml' occurs first (0: it does not occur)
\* declLen  : the length of the match of the declaration pattern; [^?]*
\*            also matches line ends, the match may run over several lines
\* utf8     : the match includes encoding="utf-8" or encoding='utf-8'
\* imported : __init__.py of the directory is readable and imports the file
\* missing  : files of the directory that __init__.py does not import
RangeDocs ==
    {d \in [languageId : {"xml", "python"}, fileName : {"v.xml", "a.py", "__init__.py"},
            lineLen : UNION {[1..n -> LineLengths] : n \in 1..MaxDocLines},
            declLine : 0..MaxDocLines, declLen : DeclarationLengths,
            utf8 : BOOLEAN, imported : BOOLEAN, missing : BOOLEAN] :
        /\ d.languageId = "xml" <=> d.fileName = "v.xml"
        /\ d.declLine <= Len(d.lineLen)
        /\ d.declLine = 0 => d.declLen = 0 /\ ~d.utf8
        /\ d.declLine > 0 =>
              /\ d.lineLen[d.declLine] >= 10
              /\ d.declLen <= d.lineLen[d.declLine] \/ d.declLine < Len(d.lineLen)
        /\ d.utf8 => d.declLen = 38
        /\ d.languageId = "xml" => d.imported /\ ~d.missing
        /\ d.languageId = "python" => d.declLine = 0
        /\ d.fileName = "__init__.py" => d.imported
        /\ d.fileName = "a.py" => ~d.missing}

\* new vscode.Range(startLine, startCharacter, endLine, endCharacter)
Range(startLine, startCharacter, endLine, endCharacter) ==
    [startLine |-> startLine, startCharacter |-> startCharacter,
     endLine |-> endLine, endCharacter |-> endCharacter]

\* lintDataFile (extension.ts): the declaration and the encoding
DeclarationRanges(d) ==
    IF d.declLine = 0
    THEN <<Range(0, 0, 0, 1)>>
    ELSE IF ~d.utf8
         THEN <<Range(0, 0, 0, d.declLen)>>
         ELSE <<>>

\* lintPythonFile (extension.ts): the file is not imported in __init__.py
InitImportRanges(d) ==
    IF d.fileName # "__init__.py" /\ ~d.imported
    THEN <<Range(0, 0, 0, 1)>> ELSE <<>>

\* OdooLinter.checkModelImports: files not imported, reported at the top
ModelImportsRanges(d) ==
    IF d.missing THEN <<Range(0, 0, 0, 10)>> ELSE <<>>

InitRanges ==
    /\ Parked
    /\ \E d \in RangeDocs : ruleRun = Call("ranges", d)

RunDeclarationRanges ==
    /\ ruleRun.pc = "call"
    /\ ruleRun.fn = "ranges"
    /\ ruleRun.in.languageId = "xml"
    /\ ruleRun' = Return(ruleRun, "lintDataFile", DeclarationRanges(ruleRun.in))
    /\ UNCHANGED <<extVars, walk, lint, data>>

RunInitImportRanges ==
    /\ ruleRun.pc = "call"
    /\ ruleRun.fn = "ranges"
    /\ ruleRun.in.languageId = "python"
    /\ ruleRun' = Return(ruleRun, "lintPythonFile", InitImportRanges(ruleRun.in))
    /\ UNCHANGED <<extVars, walk, lint, data>>

RunModelImportsRanges ==
    /\ ruleRun.pc = "call"
    /\ ruleRun.fn = "ranges"
    /\ ruleRun.in.fileName = "__init__.py"
    /\ ruleRun' = Return(ruleRun, "checkModelImports", ModelImportsRanges(ruleRun.in))
    /\ UNCHANGED <<extVars, walk, lint, data>>

NextRanges ==
    \/ RunDeclarationRanges
    \/ RunInitImportRanges
    \/ RunModelImportsRanges

SpecRanges == InitRanges /\ [][NextRanges]_vars

(* ------------------------------------------------------------------ *)
(* Properties of the debounce and of the lint pass                     *)
(* ------------------------------------------------------------------ *)

PassIds(ps) == {p.id : p \in ps}

\* the passes that start in a step
NewlyStarted == {q \in passes' : q.id \notin PassIds(passes)}

InFlight(d) == {p \in passes : p.doc = d}

Quiescent == timers = {} /\ passes = {}

\* while the triggers of a burst wait, exactly one timer is pending: it is
\* for the document of the burst and due 500 ms after the last trigger
C1_Pending ==
    /\ burst.started <= 1
    /\ burst.n > 0 /\ burst.started = 0 =>
          timers = {[id |-> lintingTimeout, doc |-> burst.doc,
                     remaining |-> DebounceMs - sinceTrigger]}
    /\ burst.started = 1 => timers = {}

\* the pass of a burst starts once, 500 ms after the last trigger, for the
\* document of the burst, when its text is the text of the last edit
C1_Start ==
    \A t \in timers : t.id \notin {u.id : u \in timers'} =>
        \/ nextId' # nextId
        \/ /\ t.doc = burst.doc
           /\ sinceTrigger = DebounceMs
           /\ burst.started = 0 /\ burst'.started = 1
           /\ TextOf(t.doc) = burst.text
           /\ IsLintable(t.doc) =>
                 /\ Cardinality(NewlyStarted) = 1
                 /\ \A q \in NewlyStarted : q.doc = burst.doc

\* the text a pass evaluates is the text of the last edit of its burst, or
\* of an edit made after the pass started; never an earlier text
C1_Text ==
    \A p \in passes : p.text # -1 =>
        /\ p.burstText <= p.text
        /\ p.text <= docText[p.doc]

C2_NeverConcurrent == \A p, q \in passes : p.doc = q.doc => p = q

\* C2 as amended: a lint pass starts while another pass for the same
\* document is in progress only if that pass started at least 500 ms
\* earlier (its filesystem reads outlasted the debounce delay).
C2_OverlapOnlyAfterDebounce ==
    [][\A q \in NewlyStarted :
          InFlight(q.doc) # {} => sinceStart >= DebounceMs]_vars

\* two passes for the same document await their reads at the same time
C2_Witness == \E p, q \in passes : p # q /\ p.doc = q.doc

\* C3: once an older and a newer lint pass for the same document have both
\* finished, the entry of the document holds the findings of the pass that
\* started last.
C3_NewestWins ==
    \A d \in LintableDocs :
        lastStarted[d] # 0 /\ InFlight(d) = {} => storedBy[d] = lastStarted[d]

\* C4: every open or save of a Python or XML document is eventually followed
\* by a lint pass for that document that stores its diagnostics.  When no
\* timer is pending and no pass is in progress nothing more will happen, so
\* no open or save may then still await its pass.
C4_OpenSaveIsLinted == Quiescent => \A d \in LintableDocs : ~owed[d]

\* C5: when a lint pass for a document inside an Odoo module completes, the
\* entry of the document is exactly the list of findings computed by that
\* pass; no finding of an earlier pass stays in it.
C5_EntryReplaced ==
    lastDone.id # 0 /\ lastDone.root # -1 =>
        /\ store[lastDone.doc] = lastDone.problems
        /\ \A i \in 1..Len(store[lastDone.doc]) :
              store[lastDone.doc][i].by = lastDone.id

\* a pass stored its findings over the findings of an earlier pass
C5_Witness ==
    /\ lastDone.id # 0 /\ lastDone.root # -1
    /\ lastDone.problems # <<>>
    /\ lastDone.prevBy # 0 /\ lastDone.prevLen > 0

\* C6: in the JavaScript extension, when a pass for a Python file stores its
\* result every read of its rules has completed and the stored list holds
\* the findings of the rules that read other files.
C6_ReadsBeforeStore ==
    /\ \A b \in background : storedBy[b.doc] < b.pass
    /\ \A d \in LintableDocs :
          (/\ LanguageId(d) = "python"
           /\ storedBy[d] # 0
           /\ fs[d].manifests # {}
           /\ fs[d].initPy = "lacks")
          => \E i \in 1..Len(store[d]) : store[d][i].rule = "init"


(* ------------------------------------------------------------------ *)
(* Properties of lintDocument, lintDataFile and findOdooModuleRoot     *)
(* ------------------------------------------------------------------ *)

InResult(f) == \E j \in 1..Len(lint.result) : lint.result[j] = f

\* C7: when one rule of a pass fails with an unexpected error, the findings
\* of the rules that ran without error are still returned by lintDocument.
C7_RuleFaultIsolated ==
    lint.pc = "done" =>
        \A i \in 1..Len(lint.completed) : InResult(lint.completed[i])

DataDone == data.pc = "done"

HasProblem(code) ==
    \E i \in 1..Len(data.problems) : data.problems[i].code = code

\* C8 as stated: the duplicate-id and the undeclared-data-file rule are
\* evaluated for every XML data document, whatever the empty-file, syntax,
\* prolog or root-element checks reported.
C8_AllRulesRun ==
    DataDone => {"duplicateId", "manifest"} \subseteq data.evaluated

\* C8 as amended: the duplicate-id and the undeclared-data-file rule are
\* evaluated whether or not the prolog or root-element checks reported a
\* finding, and exactly when the text is not empty, the validator accepts
\* it and the parser returns a non-empty array; after the empty-file
\* finding, a syntax error or a failed parse the function returns and
\* neither of the two rules is evaluated.
C8_RulesRunUnlessBroken ==
    DataDone =>
        LET sound == ~data.x.empty /\ data.x.valid /\ data.x.parse = "array"
        IN /\ sound => {"duplicateId", "manifest"} \subseteq data.evaluated
           /\ ~sound => {"duplicateId", "manifest"} \cap data.evaluated = {}

\* the prolog and the root-element check reported, and both rules reported
C8_Witness ==
    /\ DataDone
    /\ HasProblem("MISSING_XML_DECLARATION")
    /\ HasProblem("MISSING_ROOT_ELEMENT")
    /\ HasProblem("DUPLICATE_ID")
    /\ HasProblem("UNDECLARED")

\* C9: when the parser returns no tree or throws, lintDocument returns an
\* empty list and does not throw; for an empty or whitespace-only text it
\* returns an empty list without calling the parser.
C9_ParseFailureYieldsNothing ==
    lint.pc = "done" =>
        /\ ~lint.rejected
        /\ lint.text \in {"empty", "blank"} =>
              lint.result = <<>> /\ lint.parsed = 0
        /\ lint.text = "code" /\ lint.parser \in {"null", "throws"} =>
              lint.result = <<>> /\ lint.parsed = 1 /\ lint.k = 0

\* the parser threw on a Python file and lintDocument returned
C9_Witness ==
    /\ lint.pc = "done"
    /\ lint.text = "code"
    /\ lint.parser = "throws"
    /\ lint.parsed = 1
    /\ RulesFor(lint.file) # <<>>

WalkDone == walk.pc = "walk" /\ walk.w.status # "stat"

\* the directories the walk may examine: the directory of the file and
\* its ancestors, nearest first, at most MaxLevels of them
Nearest(depth) ==
    [k \in 1..Min(MaxLevels, depth + 1) |-> depth - (k - 1)]

C10_Examined ==
    walk.pc = "walk" =>
        LET n == Len(walk.examined)
            near == Nearest(walk.depth)
        IN /\ n <= MaxLevels
           /\ n <= Len(near)
           /\ \A k \in 1..n : walk.examined[k] = near[k]
           /\ walk.w.status \in {"stat", "found", "null"}
           /\ WalkDone =>
                 (walk.w.status = "null"
                    <=> \A k \in 1..Len(near) : near[k] \notin walk.manifests)
           /\ walk.w.status = "null" => n = Len(near)

\* C10: findOdooModuleRoot terminates; it examines at most 10 directories,
\* the directory of the file and its ancestors, nearest first, and returns
\* null when none of them has a manifest, also when a directory further up
\* has one or the filesystem root is reached earlier; it never throws.
C10_WalkTerminates == []C10_Examined /\ <>WalkDone

\* ten directories examined, null returned, a manifest further up
C10_Witness ==
    /\ WalkDone
    /\ walk.w.status = "null"
    /\ Len(walk.examined) = MaxLevels
    /\ \E m \in walk.manifests : m <= walk.depth - MaxLevels


(* ------------------------------------------------------------------ *)
(* Properties of the rules                                             *)
(* ------------------------------------------------------------------ *)

Done(fn) == ruleRun.pc = "done" /\ ruleRun.fn = fn

\* C11: with __init__.py importing exactly a and b ('from . import', in
\* one statement or in separate ones) and units a, b, c, the
\* missing-import rule of the extension reports a Warning on the document
\* of c and no finding on the documents of a and b.
C11_OnlyMissingUnitFlagged ==
    Done("lintMissingInitImport") =>
        /\ ruleRun.in.unit = ruleRun.in.c =>
              /\ Len(ruleRun.out) = 1
              /\ ruleRun.out[1].severity = "Warning"
        /\ ruleRun.in.unit # ruleRun.in.c => ruleRun.out = <<>>

\* the findings of the run with the given message
OutWith(message) ==
    {i \in 1..Len(ruleRun.out) : ruleRun.out[i].message = message}

AccessDone == Done("lintModelAccess") \/ Done("lintMissingModelAccess")

\* the access table has a row that contains the model id of the name
HasAccessRow(name, csv) ==
    \E row \in csv.rows :
        \E k \in 0..(Len(row) - Len(name) - 1) :
            /\ row[k + 1] = "model_"
            /\ \A i \in 1..Len(name) :
                  row[k + 1 + i] = (IF name[i] = "." THEN "_" ELSE name[i])

\* C12: for a unit with models.Model and _name = "a.b": the access table
\* exists and no row contains model_a_b -> exactly one Warning about the
\* missing rules; the table does not exist -> exactly one Warning with
\* another message; a row contains model_a_b -> neither. The two
\* warnings never occur together.
C12_AccessWarnings ==
    AccessDone /\ ruleRun.in.src.name # NoName =>
        LET csv == ruleRun.in.csv
            rules == OutWith("no-access-rules")
            file == OutWith("no-access-file")
        IN /\ \A i \in rules \cup file : ruleRun.out[i].severity = "Warning"
           /\ rules = {} \/ file = {}
           /\ ~csv.exists => Cardinality(file) = 1 /\ rules = {}
           /\ csv.exists /\ ~HasAccessRow(ruleRun.in.src.name, csv) =>
                 Cardinality(rules) = 1 /\ file = {}
           /\ csv.exists /\ HasAccessRow(ruleRun.in.src.name, csv) =>
                 rules = {} /\ file = {}

\* a.b with a table that has the row of model_a_b and the row written
\* with the dot, and a.b with a table that exists without a row for it
C12_Witness ==
    /\ Done("lintModelAccess")
    /\ ruleRun.in.src.name = <<"a", ".", "b">>
    /\ ruleRun.in.csv.exists
    /\ ~HasAccessRow(ruleRun.in.src.name, ruleRun.in.csv)
    /\ Cardinality(ruleRun.in.csv.rows) >= 2
    /\ OutWith("no-access-rules") # {}

\* C13: with a readable manifest the undeclared-data-file Warning is
\* reported if and only if the path of the document is in neither the data
\* list nor the demo list of the manifest; with an unreadable manifest no
\* such finding is reported.
C13_UndeclaredIffAbsent ==
    Done("lintDataFile") =>
        LET m == ruleRun.in.manifest
            declared == ruleRun.in.path \in m.data.files \cup m.demo.files
        IN /\ m.readable =>
                 (OutWith("undeclared") # {} <=> ~declared)
           /\ ~m.readable => ruleRun.out = <<>>
           /\ \A i \in OutWith("undeclared") : ruleRun.out[i].severity = "Warning"

ManifestDone == Done("checkManifest") \/ Done("checkManifestLoop")

\* C14: a manifest whose dictionary has no license key gets exactly one
\* missing-license Warning and no invalid-license finding; a manifest with
\* a license key never gets the missing-license Warning; the two findings
\* never occur together.
C14_MissingLicenseOnce ==
    ManifestDone /\ ruleRun.in.dict =>
        LET missing == OutWith("missing-license")
            invalid == OutWith("invalid-license")
        IN /\ missing = {} \/ invalid = {}
           /\ "license" \notin ruleRun.in.top =>
                 /\ Cardinality(missing) = 1
                 /\ invalid = {}
                 /\ \A i \in missing : ruleRun.out[i].severity = "Warning"
           /\ "license" \in ruleRun.in.top => missing = {}

\* C15: for a manifest with a license key the invalid-license Warning is
\* reported if and only if the license string is not one of the five
\* accepted licenses, whether the literal is written with single or with
\* double quotes; the finding carries the offending value.
C15_InvalidLicenseIffNotListed ==
    ManifestDone /\ "license" \in ruleRun.in.top /\ ruleRun.in.nested = {} =>
        LET invalid == OutWith("invalid-license")
        IN /\ invalid # {} <=> ruleRun.in.license \notin ValidLicenses
           /\ \A i \in invalid :
                 /\ ruleRun.out[i].severity = "Warning"
                 /\ ruleRun.out[i].node.chars = ruleRun.in.license

\* C16: checkManifest reports exactly one Warning, anchored at the
\* dictionary, for each of the keys name and version that the manifest
\* dictionary does not declare, and none for a key it declares.
C16_RequiredKeys ==
    Done("checkManifest") /\ ruleRun.in.dict =>
        \A k \in {"name", "version"} :
            LET found == {i \in OutWith("missing-key") :
                             ruleRun.out[i].node.chars = k}
            IN /\ k \notin ruleRun.in.top => Cardinality(found) = 1
               /\ k \in ruleRun.in.top => found = {}
               /\ \A i \in found : /\ ruleRun.out[i].severity = "Warning"
                                   /\ ruleRun.out[i].anchor = "dictionary"

\* the occurrences of the attribute id="v": the line index of each
IdOccurrences(lines, v) ==
    {<<n, j>> \in (1..Len(lines)) \X (1..MaxAttrs) :
        /\ j <= Len(lines[n])
        /\ lines[n][j].prefix = ""
        /\ lines[n][j].word = "id"
        /\ lines[n][j].value = v}

\* C17: an id value that occurs n > 1 times yields exactly n Errors, one on
\* the line of each occurrence, all naming that id; an id value that occurs
\* exactly once yields no finding.
C17_DuplicateIds ==
    Done("lintDuplicateIds") =>
        \A v \in IdValues :
            LET occ == IdOccurrences(ruleRun.in, v)
                found == {i \in 1..Len(ruleRun.out) : ruleRun.out[i].id = v}
            IN /\ Cardinality(occ) = 1 => found = {}
               /\ Cardinality(occ) > 1 =>
                     /\ Cardinality(found) = Cardinality(occ)
                     /\ \A i \in found : ruleRun.out[i].severity = "Error"
                     /\ \A n \in 1..Len(ruleRun.in) :
                           Cardinality({i \in found : ruleRun.out[i].line = n - 1})
                             = Cardinality({o \in occ : o[1] = n})

\* the root-element findings of lintDataFile (XML parser variant)
RootFindings ==
    {i \in 1..Len(data.problems) :
        data.problems[i].code \in {"MISSING_ROOT_ELEMENT", "ROOT_TAG"}}

\* C18: a missing-root-element Error is reported if and only if the
\* document has no <odoo> or <openerp> root element; a well-formed
\* document with such a root gets no root-element finding.
C18_RootElement ==
    DataDone /\ "root" \in data.evaluated =>
        /\ RootFindings # {} <=> ~data.x.odooRoot
        /\ \A i \in RootFindings : data.problems[i].severity = "Error"

\* C19: a document without XML declaration, or whose declaration declares
\* an encoding other than UTF-8, gets exactly one declaration finding, a
\* Warning; a document whose declaration declares UTF-8 gets none.
C19_Declaration ==
    Done("lintXmlStructure") =>
        LET decl == ruleRun.in.decl
            found == OutWith("xml-declaration") \cup OutWith("xml-encoding")
        IN /\ \A i \in found : ruleRun.out[i].severity = "Warning"
           /\ ~decl.present => Cardinality(found) = 1
           /\ decl.present /\ decl.encoding = "latin-1" => Cardinality(found) = 1
           /\ decl.present /\ decl.encoding \in {"utf-8", "UTF-8"} => found = {}

\* C20: for each class whose bases contain models.Model or
\* models.TransientModel a missing-identity finding is reported if and only
\* if its body assigns neither _name nor _inherit; a class that assigns
\* only _inherit gets none.
C20_ModelIdentity ==
    Done("checkOdooModels") =>
        \A k \in 1..Len(ruleRun.in) :
            LET class == ruleRun.in[k]
                found == {i \in 1..Len(ruleRun.out) : ruleRun.out[i].class = k}
            IN class.bases \cap {"models.Model", "models.TransientModel"} # {} =>
                  (found # {} <=> class.assigns \cap {"_name", "_inherit"} = {})

\* the findings anchored at clause k
AnchoredAt(k) == {i \in 1..Len(ruleRun.out) : ruleRun.out[i].node = k}

\* C21: every collected import clause whose alias no identifier
\* outside import statements references yields one Warning anchored at
\* that clause, also when two clauses bind the same alias; a referenced
\* alias yields none.
C21_WarningPerClause ==
    Done("checkUnusedImports") =>
        \A k \in 1..Len(ruleRun.in.clauses) :
            LET c == ruleRun.in.clauses[k]
            IN c.collected =>
                  /\ c.alias \notin ruleRun.in.references =>
                        Cardinality(AnchoredAt(k)) = 1
                  /\ c.alias \in ruleRun.in.references => AnchoredAt(k) = {}

\* the findings of a rule in the result of the pass that stored last
DoneBy(r) == {i \in 1..Len(lastDone.problems) : lastDone.problems[i].rule = r}

\* a Python pass in a module whose directory has no readable __init__.py
\* has stored
NoInitPyDone ==
    /\ lastDone.doc # ""
    /\ LanguageId(lastDone.doc) = "python"
    /\ lastDone.root >= 0
    /\ fs[lastDone.doc].initPy = "absent"

\* C22: when __init__.py is missing or unreadable the missing-import rule
\* adds no finding and the pass goes on: the rules on the text and the
\* access rule have run and their findings are what the pass stored.
C22_MissingInitIsSilent ==
    /\ NoInitPyDone =>
          /\ DoneBy("init") = {}
          /\ DoneBy("text") # {}
          /\ fs[lastDone.doc].accessCsv = "norow" => DoneBy("access") # {}
          /\ storedBy[lastDone.doc] = lastDone.id =>
                store[lastDone.doc] = lastDone.problems
    /\ \A p \in passes :
          p.pc = "readCsv" /\ fs[p.doc].initPy = "absent" =>
              \A i \in 1..Len(p.problems) : p.problems[i].rule # "init"

C22_Witness ==
    /\ NoInitPyDone
    /\ DoneBy("access") # {}
    /\ store[lastDone.doc] = lastDone.problems

\* the nodes of the tree whose kind is requested, in document order
MatchingInOrder ==
    SelectSeq([k \in 1..Len(ruleRun.in.tree.parent) |-> k],
              LAMBDA j : ruleRun.in.tree.type[j] \in ruleRun.in.types)

\* C23: getNodesByType returns exactly the nodes of the tree, the root
\* included, whose kind is one of the kinds asked for, each once, in
\* pre-order (the empty list when none matches); a second call on the
\* unchanged tree returns the same sequence.
C23_PreOrderMatches ==
    /\ [](ruleRun.pc = "done"
          /\ ruleRun.fn \in {"getNodesByType", "getNodesByType again"}
             => ruleRun.out = MatchingInOrder)
    /\ [][ruleRun.pc = "done" /\ ruleRun.fn = "getNodesByType"
             => ruleRun'.out = ruleRun.out]_vars

\* a second call on a tree with a matching grandchild after a matching
\* child, and a root that does not match
C23_Witness ==
    /\ Done("getNodesByType again")
    /\ Len(ruleRun.out) >= 2
    /\ ruleRun.in.tree.type[1] \notin ruleRun.in.types
    /\ \E j \in 1..Len(ruleRun.out) :
          ruleRun.in.tree.parent[ruleRun.out[j]] > 1

\* C24: when several of the directories the walk may examine contain a
\* manifest, findOdooModuleRoot returns the one closest to the file; it
\* never returns a directory in which the lookup of the manifest failed.
C24_ClosestManifest ==
    walk.pc = "walk" /\ walk.w.status = "found" =>
        /\ walk.w.root \in walk.manifests
        /\ walk.w.root <= walk.depth
        /\ \A m \in walk.manifests : m <= walk.depth => m <= walk.w.root
        /\ \A k \in 1..Len(walk.examined) :
              walk.examined[k] \notin walk.manifests => walk.examined[k] # walk.w.root

\* two ancestors with a manifest, none in the directory of the file
C24_Witness ==
    /\ walk.pc = "walk"
    /\ walk.w.status = "found"
    /\ walk.w.root < walk.depth
    /\ \E m \in walk.manifests : m < walk.w.root
    /\ Len(walk.examined) >= 2

\* C25: only the pairs of the top-level dictionary of the manifest count
\* as declared keys: a name or license key that occurs only in a nested
\* dictionary does not satisfy the required-key and missing-license rules
\* and its value is not checked by the license-value rule.
C25_TopLevelPairsOnly ==
    ManifestDone /\ ruleRun.in.dict =>
        /\ Done("checkManifest") /\ "name" \in ruleRun.in.nested \ ruleRun.in.top =>
              \E i \in OutWith("missing-key") : ruleRun.out[i].node.chars = "name"
        /\ "license" \in ruleRun.in.nested \ ruleRun.in.top =>
              /\ OutWith("missing-license") # {}
              /\ OutWith("invalid-license") = {}

\* C26: in a file that defines several model classes, each with its own
\* _name, the missing-access rule is evaluated for each model: every model
\* whose id is in no row of the existing access table gets its own Warning.
C26_EveryModelChecked ==
    AccessDone /\ ruleRun.in.csv.exists =>
        \A k \in 1..Len(ruleRun.in.names) :
            ~HasAccessRow(ruleRun.in.names[k], ruleRun.in.csv) =>
                \E i \in OutWith("no-access-rules") :
                    ruleRun.out[i].model = ruleRun.in.names[k]

\* the range lies in a document with the given line lengths: its lines
\* exist and its columns are at most the length of their line
InDocument(r, lineLen) ==
    /\ r.startLine < Len(lineLen)
    /\ r.endLine < Len(lineLen)
    /\ r.startCharacter <= lineLen[r.startLine + 1]
    /\ r.endCharacter <= lineLen[r.endLine + 1]

\* C27: the location of every finding lies inside the document: the fixed
\* ranges (0,0)-(0,1) and (0,0)-(0,10) and the range that ends at the
\* length of the matched XML declaration included.
C27_RangesInDocument ==
    ruleRun.pc = "done"
    /\ ruleRun.fn \in {"lintDataFile", "lintPythonFile", "checkModelImports"} =>
        \A i \in 1..Len(ruleRun.out) :
            InDocument(ruleRun.out[i], ruleRun.in.lineLen)

\* a call of triggerLinting armed a timer in this step
Scheduled == nextId' # nextId

\* C28: the debounce timer is shared by all documents: at most one pass is
\* pending at any time, and a trigger that schedules a pass cancels the
\* pending one, whichever document it was scheduled for.
C28_OnePendingPass ==
    /\ [](Cardinality(timers) <= 1)
    /\ [][Scheduled =>
            /\ \A t \in timers : t \notin timers'
            /\ \E d \in Docs : timers' = {NewTimer(nextId', d)}
            /\ lintingTimeout' = nextId']_vars

\* a.py was opened or saved and its pass never started: the one pending
\* timer is for another document
C28_Witness ==
    /\ owed["a.py"]
    /\ lastStarted["a.py"] = 0
    /\ \E t \in timers : t.doc = "v.xml"
    /\ Cardinality(timers) = 1

\* the pass that stored last was for a Python or XML document for which
\* findOdooModuleRoot returned null
NoRootDone ==
    /\ lastDone.id # 0
    /\ IsLintable(lastDone.doc)
    /\ lastDone.root = -1

\* C29: when no manifest is found for a Python or XML document the pass
\* evaluates no rule and stores an empty list: the findings an earlier pass
\* stored for the document are removed.
C29_NoModuleClearsEntry ==
    NoRootDone =>
        /\ lastDone.problems = <<>>
        /\ store[lastDone.doc] = <<>>
        /\ storedBy[lastDone.doc] = lastDone.id

\* the entry held findings of an earlier pass when the pass stored
C29_Witness ==
    /\ NoRootDone
    /\ lastDone.prevBy # 0
    /\ lastDone.prevLen > 0
    /\ store[lastDone.doc] = <<>>

\* the passes that end in a step
Ended == {p \in passes : p.id \notin PassIds(passes')}

\* C30: a lint pass changes the entry of its own document only, and a pass
\* for a document that is neither Python nor XML changes no entry: an
\* entry changes only in the step in which a pass for its document, a
\* Python or XML document, stores.
C30_OnlyOwnEntry ==
    /\ [][\A d \in Docs :
            store'[d] # store[d] \/ storedBy'[d] # storedBy[d] =>
                /\ IsLintable(d)
                /\ \E p \in Ended : p.doc = d /\ storedBy'[d] = p.id
                /\ \A e \in Docs \ {d} :
                      store'[e] = store[e] /\ storedBy'[e] = storedBy[e]]_vars
    /\ [](\A d \in Docs : ~IsLintable(d) => store[d] = <<>> /\ storedBy[d] = 0)

\* the findings of a.py stayed while a pass for v.xml stored and the timer
\* of n.txt fired
C30_Witness ==
    /\ store["a.py"] # <<>>
    /\ lastDone.doc = "v.xml"
    /\ store["v.xml"] # <<>>
    /\ burst.doc = "n.txt"
    /\ burst.started = 1
    /\ store["n.txt"] = <<>>

====
